---- MODULE Spec2Model ----
(***************************************************************************)
(* The attendance routes of the server (session start, session end, mark,  *)
(* student history, report) over the AttendanceSession and Attendance      *)
(* collections.                                                            *)
(* Every handler is an async function: it runs from one await to the next  *)
(* without interruption, and other requests' handlers run in between.      *)
(* One action of this module is one database operation of a handler        *)
(* together with the synchronous code that follows it up to the next       *)
(* await. The User and Subject collections are only read by these routes,  *)
(* so a lookup in them is taken together with the operation before it.     *)
(* Spec lets requests overlap, SerialSpec handles one request at a time.   *)
(* StatsSpec is the statistics loop of the student history over the        *)
(* records of one subject; CameraSpec is the WebcamFeed component of the   *)
(* browser, with its renders, effects and getUserMedia calls.              *)
(***************************************************************************)
EXTENDS Integers, FiniteSets, Sequences, TLC

\* ---------------------------------------------------------------- bounds

\* Requests that are handled at the same time.
MaxInFlight == 2
\* Requests accepted over a run.
MaxRequests == 3
\* The millisecond clock runs from 0 to MaxClock.
MaxClock == 1

\* The records of one subject the statistics loop goes through, per status.
MaxPresent == 188
MaxLate == 2
MaxAbsent == 42
\* The changes of the isRecording prop over a WebcamFeed's life.
MaxChanges == 4

Procs == 1..MaxInFlight

\* ------------------------------------------------------ reference data

\* The User collection (read-only for these routes).
FacultyIds == {"f1", "f2"}
StudentIds == {"s1", "s2"}
UserIds == FacultyIds \cup StudentIds \cup {"a1"}
\* An id a token can carry for which no User document exists.
NoUser == "u0"

Cohort(department, division, semester) ==
  [department |-> department, division |-> division, semester |-> semester]
CohortA == Cohort("CSE", "A", 1)
CohortB == Cohort("CSE", "B", 1)
Cohorts == {CohortA, CohortB}

\* User.findById: the set holding the document, or the empty set for null.
User(id) ==
  IF id \in FacultyIds
    THEN {[_id |-> id, username |-> id, role |-> "faculty", isActive |-> TRUE,
           cohort |-> CohortA]}
  ELSE IF id = "s1"
    THEN {[_id |-> id, username |-> id, role |-> "student", isActive |-> TRUE,
           cohort |-> CohortA]}
  ELSE IF id = "s2"
    THEN {[_id |-> id, username |-> id, role |-> "student", isActive |-> FALSE,
           cohort |-> CohortB]}
  ELSE IF id = "a1"
    THEN {[_id |-> id, username |-> id, role |-> "admin", isActive |-> TRUE,
           cohort |-> CohortA]}
  ELSE {}

\* The Subject collection (read-only for these routes).
SubjectIds == {"sub1"}
NoSubject == "sub0"
Subject(id) ==
  IF id \in SubjectIds THEN {[_id |-> id, name |-> id]} ELSE {}

\* User.countDocuments({role: 'student', department, division, semester,
\* isActive: true})
CountStudents(cohort) ==
  Cardinality({id \in UserIds :
     \E u \in User(id) :
        u.role = "student" /\ u.cohort = cohort /\ u.isActive})

\* --------------------------------------------------------------- values

Statuses == {"present", "absent", "late"}
\* A field left out of the request body.
Undefined == "undefined"
\* detectionConfidence in hundredths; NoNumber stands for an omitted field.
NoNumber == 0 - 1
\* endTime of a session that has not ended.
NoTime == 0 - 1

\* `${Date.now()}_${facultyId}_${subjectId}`
SessionIdOf(t, facultyId, subjectId) == <<t, facultyId, subjectId>>
\* A session id no session start ever produces.
NoSessionId == <<0 - 1, NoUser, NoSubject>>

\* detectionConfidence || 0
ConfidenceOrDefault(c) == IF c = NoNumber \/ c = 0 THEN 0 ELSE c
\* remarks || ''
RemarksOrDefault(r) == IF r = Undefined \/ r = "" THEN "" ELSE r


\* ---------------------------------------------------------------- state

VARIABLES
  sessions,    \* the AttendanceSession collection: a set of documents
  attendance,  \* the Attendance collection: a set of documents
  now,         \* the last value read from the clock
  started,     \* requests accepted so far
  req,         \* per handler slot: the request's position, locals and answer
  lastMark,    \* history: per (student, sessionId), the last mark answered 200/201
  raced,       \* history: the (student, sessionId) pairs two marks met on at once
  tally,       \* the statistics loop over one subject's records, on its own
  camera       \* the WebcamFeed component in the browser

vars == <<sessions, attendance, now, started, req, lastMark, raced, tally, camera>>

\* A handler slot with no request in it.
Idle ==
  [op |-> "none", pc |-> "idle", role |-> "none", userId |-> NoUser,
   subjectId |-> NoSubject, cohort |-> CohortA,
   sessionId |-> NoSessionId, studentId |-> NoUser, facultyId |-> Undefined,
   status |-> "present", detectionConfidence |-> NoNumber, remarks |-> Undefined,
   subject |-> {}, faculty |-> {}, student |-> {}, session |-> {},
   assigned |-> {}, existingAttendance |-> {}, totalStudents |-> 0, date |-> NoTime,
   code |-> 0, message |-> "", body |-> {}, statistics |-> {},
   named |-> FALSE, foreign |-> FALSE, ended |-> FALSE]

\* res.status(code).json({message, ...}): the handler is over and its locals
\* are gone; what stays is the kind of request, the answer, and what the
\* request met when it arrived.
Reply(r, code, message, body) ==
  [Idle EXCEPT !.op = r.op, !.pc = "done", !.role = r.role,
               !.named = r.named, !.foreign = r.foreign, !.ended = r.ended,
               !.code = code, !.message = message, !.body = body]

\* The statistics loop before its first record.
NoRecords ==
  [pc |-> "count", present |-> 0, absent |-> 0, late |-> 0, statistics |-> {}]

\* A WebcamFeed that has not been mounted. stream is the component's state
\* (0 for null, else the number of the MediaStream), seen the value of stream
\* in the render whose effect and cleanup were registered last, pending the
\* getUserMedia calls not yet settled, live the MediaStreams with a track that
\* has not been stopped.
NotMounted ==
  [phase |-> "new", isRecording |-> FALSE, stream |-> 0, seen |-> 0,
   error |-> FALSE, isLoading |-> TRUE, pending |-> 0, acquired |-> 0,
   live |-> {}, changes |-> 0]

Init ==
  /\ sessions = {}
  /\ attendance = {}
  /\ now = 0
  /\ started = 0
  /\ req = [p \in Procs |-> Idle]
  /\ lastMark = {}
  /\ raced = {}
  /\ tally = NoRecords
  /\ camera = NotMounted

\* A handler slot is free before its first request and after a response.
Free(p) == req[p].pc \in {"idle", "done"}

\* A request is accepted into the first free handler slot (the slots are
\* interchangeable).
Accept(p) ==
  /\ Free(p)
  /\ \A q \in Procs : q < p => ~Free(q)
  /\ started < MaxRequests
  /\ started' = started + 1

\* The values Date.now() can return: the clock never runs backwards.
ClockReadings == now..MaxClock

\* ---------------------------------------------------------------- store

\* The _id the store gives the next document of a collection (documents are
\* never deleted).
NextId(coll) == Cardinality(coll) + 1

\* Faulty variant: the collection has no unique index on sessionId.
SessionInsertAccepted_NoIndex(coll, doc) == TRUE

\* The unique constraint on AttendanceSession.sessionId: an insert is accepted
\* only if no stored session has the new document's sessionId.
SessionInsertAccepted(coll, doc) ==
  ~ \E d \in coll : d.sessionId = doc.sessionId

\* Faulty variant: the collection has no unique index on (student, sessionId).
AttendanceInsertAccepted_NoIndex(coll, doc) == TRUE

\* The unique constraint on Attendance (student, sessionId).
AttendanceInsertAccepted(coll, doc) ==
  ~ \E d \in coll : d.student = doc.student /\ d.sessionId = doc.sessionId

\* Faulty variant: the query leaves out status: 'active'.
ActiveSessionOf_AnyStatus(sessionId, facultyId) ==
  {d \in sessions : d.sessionId = sessionId /\ d.faculty = facultyId}

\* Faulty variant: the query leaves out faculty: facultyId.
ActiveSessionOf_AnyFaculty(sessionId, facultyId) ==
  {d \in sessions : d.sessionId = sessionId /\ d.status = "active"}

\* The documents AttendanceSession.findOne({sessionId, faculty, status:
\* 'active'}) can return.
ActiveSessionOf(sessionId, facultyId) ==
  {d \in sessions :
     d.sessionId = sessionId /\ d.faculty = facultyId /\ d.status = "active"}

\* The documents Attendance.findOne({student, sessionId}) can return.
AttendanceOf(studentId, sessionId) ==
  {d \in attendance : d.student = studentId /\ d.sessionId = sessionId}

\* Faulty variant: the count takes late records for present ones.
CountPresent_WithLate(sessionId) ==
  Cardinality({d \in attendance :
                 d.sessionId = sessionId /\ d.status \in {"present", "late"}})

\* Attendance.countDocuments({sessionId, status: 'present'})
CountPresent(sessionId) ==
  Cardinality({d \in attendance :
                 d.sessionId = sessionId /\ d.status = "present"})

\* The sessions stored under a sessionId.
SessionsNamed(sessionId) == {d \in sessions : d.sessionId = sessionId}

\* What a request that names a session meets when it arrives (history, kept
\* with the request for the properties): a session of that id exists, one
\* belongs to another faculty member, one has been ended.
Met(r, sessionId, facultyId) ==
  [r EXCEPT
     !.named = SessionsNamed(sessionId) # {},
     !.foreign = \E d \in SessionsNamed(sessionId) : d.faculty # facultyId,
     !.ended = \E d \in SessionsNamed(sessionId) : d.status = "completed"]

\* -------------------------------------------- POST /session/start

\* The request arrives with a body that passes express-validator;
\* Subject.findById(subjectId), then User.findById(facultyId).
SessionStartBegin(p, userId, subjectId, cohort) ==
  /\ Accept(p)
  /\ LET r == [Idle EXCEPT !.op = "start", !.role = "faculty", !.userId = userId,
                           !.subjectId = subjectId, !.cohort = cohort]
         subject == Subject(subjectId)
         faculty == User(userId)
     IN req' = [req EXCEPT ![p] =
                  IF subject = {}
                    THEN Reply(r, 400, "Subject not found", {})
                  ELSE IF faculty = {}
                    THEN Reply(r, 400, "Faculty not found", {})
                  ELSE [r EXCEPT !.pc = "count", !.subject = subject,
                                 !.faculty = faculty]]
  /\ UNCHANGED <<sessions, attendance, now, lastMark, raced>>
  /\ UNCHANGED <<tally, camera>>

\* User.countDocuments(...), then the sessionId and the dates of the new
\* document.
SessionStartCount(p) ==
  /\ req[p].op = "start" /\ req[p].pc = "count"
  /\ \E t \in ClockReadings :
       /\ now' = t
       /\ req' = [req EXCEPT ![p] =
                    [@ EXCEPT !.pc = "save",
                              !.totalStudents = CountStudents(req[p].cohort),
                              !.sessionId =
                                 SessionIdOf(t, req[p].userId, req[p].subjectId),
                              !.date = t]]
  /\ UNCHANGED <<sessions, attendance, started, lastMark, raced>>
  /\ UNCHANGED <<tally, camera>>

\* new AttendanceSession({...})
NewSession(r, id) ==
  [_id |-> id, sessionId |-> r.sessionId, subject |-> r.subjectId,
   subjectName |-> (CHOOSE s \in r.subject : TRUE).name,
   faculty |-> r.userId,
   facultyName |-> (CHOOSE f \in r.faculty : TRUE).username,
   date |-> r.date, startTime |-> r.date, endTime |-> NoTime,
   cohort |-> r.cohort, totalStudents |-> r.totalStudents,
   presentStudents |-> 0, absentStudents |-> 0, status |-> "active"]

\* session.save(): the insert, answered 201, or rejected by the store and
\* answered 500 from the catch block.
SessionStartSave(p) ==
  /\ req[p].op = "start" /\ req[p].pc = "save"
  /\ LET doc == NewSession(req[p], NextId(sessions))
     IN IF SessionInsertAccepted(sessions, doc)
          THEN /\ sessions' = sessions \cup {doc}
               /\ req' = [req EXCEPT ![p] =
                            Reply(@, 201, "Attendance session started successfully",
                                  {doc})]
          ELSE /\ req' = [req EXCEPT ![p] = Reply(@, 500, "Server error", {})]
               /\ UNCHANGED sessions
  /\ UNCHANGED <<attendance, now, started, lastMark, raced>>
  /\ UNCHANGED <<tally, camera>>

\* -------------------------------------------- PUT /session/:sessionId/end

\* The request arrives; AttendanceSession.findOne({sessionId, faculty:
\* facultyId, status: 'active'}).
SessionEndBegin(p, userId, sessionId) ==
  /\ Accept(p)
  /\ LET r == Met([Idle EXCEPT !.op = "end", !.role = "faculty",
                               !.userId = userId, !.sessionId = sessionId],
                  sessionId, userId)
         found == ActiveSessionOf(sessionId, userId)
     IN IF found = {}
          THEN req' = [req EXCEPT ![p] =
                         Reply(r, 404, "Active session not found", {})]
          ELSE \E session \in found :
                 req' = [req EXCEPT ![p] =
                           [r EXCEPT !.pc = "count", !.session = {session}]]
  /\ UNCHANGED <<sessions, attendance, now, lastMark, raced>>
  /\ UNCHANGED <<tally, camera>>

\* Faulty variant: the absent count is the number of records with status absent.
AbsentCount_FromRecords(session, presentCount) ==
  Cardinality({d \in attendance :
                 d.sessionId = session.sessionId /\ d.status = "absent"})

\* session.totalStudents - presentCount
AbsentCount(session, presentCount) == session.totalStudents - presentCount

\* Attendance.countDocuments({sessionId, status: 'present'}), then the
\* assignments to the handler's copy of the loaded session document.
SessionEndCount(p) ==
  /\ req[p].op = "end" /\ req[p].pc = "count"
  /\ \E t \in ClockReadings :
       LET presentCount == CountPresent(req[p].sessionId)
           session == CHOOSE d \in req[p].session : TRUE
           absentCount == AbsentCount(session, presentCount)
       IN /\ now' = t
          /\ req' = [req EXCEPT ![p] =
                       [@ EXCEPT !.pc = "save",
                                 !.assigned =
                                    {[session EXCEPT
                                        !.endTime = t,
                                        !.presentStudents = presentCount,
                                        !.absentStudents = absentCount,
                                        !.status = "completed"]}]]
  /\ UNCHANGED <<sessions, attendance, started, lastMark, raced>>
  /\ UNCHANGED <<tally, camera>>

\* The stored session after session.save() of a loaded document: save
\* writes, to the stored document with the loaded one's _id, the paths whose
\* assigned value differs from the value loaded.
SavedSession(d, loaded, assigned) ==
  IF d._id = loaded._id
    THEN [d EXCEPT
            !.endTime =
               IF assigned.endTime # loaded.endTime THEN assigned.endTime ELSE @,
            !.presentStudents =
               IF assigned.presentStudents # loaded.presentStudents
                 THEN assigned.presentStudents ELSE @,
            !.absentStudents =
               IF assigned.absentStudents # loaded.absentStudents
                 THEN assigned.absentStudents ELSE @,
            !.status =
               IF assigned.status # loaded.status THEN assigned.status ELSE @]
    ELSE d

\* session.save(), answered 200 with the handler's document.
SessionEndSave(p) ==
  /\ req[p].op = "end" /\ req[p].pc = "save"
  /\ LET loaded == CHOOSE d \in req[p].session : TRUE
         assigned == CHOOSE d \in req[p].assigned : TRUE
     IN /\ sessions' = {SavedSession(d, loaded, assigned) : d \in sessions}
        /\ req' = [req EXCEPT ![p] =
                     Reply(@, 200, "Attendance session ended successfully",
                           {assigned})]
  /\ UNCHANGED <<attendance, now, started, lastMark, raced>>
  /\ UNCHANGED <<tally, camera>>

\* ------------------------------------------------------- POST /mark

\* A mark of this (student, sessionId) is being handled.
MarkInFlight(studentId, sessionId) ==
  \E q \in Procs :
    /\ ~Free(q) /\ req[q].op = "mark"
    /\ req[q].studentId = studentId /\ req[q].sessionId = sessionId

\* The request arrives with a body that passes express-validator;
\* AttendanceSession.findOne({sessionId, faculty: facultyId, status: 'active'}).
MarkBegin(p, userId, sessionId, studentId, status, detectionConfidence, remarks) ==
  /\ Accept(p)
  /\ LET r == Met([Idle EXCEPT !.op = "mark", !.role = "faculty",
                               !.userId = userId, !.sessionId = sessionId,
                               !.studentId = studentId, !.status = status,
                               !.detectionConfidence = detectionConfidence,
                               !.remarks = remarks],
                  sessionId, userId)
         found == ActiveSessionOf(sessionId, userId)
     IN IF found = {}
          THEN req' = [req EXCEPT ![p] =
                         Reply(r, 400, "Invalid or inactive session", {})]
          ELSE \E session \in found :
                 req' = [req EXCEPT ![p] =
                           [r EXCEPT !.pc = "findStudent", !.session = {session}]]
  /\ raced' = IF ActiveSessionOf(sessionId, userId) # {}
                   /\ MarkInFlight(studentId, sessionId)
                THEN raced \cup {<<studentId, sessionId>>}
                ELSE raced
  /\ UNCHANGED <<sessions, attendance, now, lastMark>>
  /\ UNCHANGED <<tally, camera>>

\* Faulty variant: the check leaves out the user's role.
InvalidStudent_AnyRole(student) == student = {}

\* !student || student.role !== 'student'
InvalidStudent(student) ==
  student = {} \/ \E u \in student : u.role # "student"

\* User.findById(studentId), then User.findById(facultyId).
MarkFindStudent(p) ==
  /\ req[p].op = "mark" /\ req[p].pc = "findStudent"
  /\ LET student == User(req[p].studentId)
     IN req' = [req EXCEPT ![p] =
                  IF InvalidStudent(student)
                    THEN Reply(@, 400, "Student not found", {})
                    ELSE [@ EXCEPT !.pc = "findExisting", !.student = student,
                                   !.faculty = User(req[p].userId)]]
  /\ UNCHANGED <<sessions, attendance, now, started, lastMark, raced>>
  /\ UNCHANGED <<tally, camera>>

\* Faulty variant: an update without remarks keeps the record's old remarks.
UpdatedAttendance_KeepRemarks(existing, r) ==
  [existing EXCEPT !.status = r.status,
                   !.detectionConfidence = ConfidenceOrDefault(r.detectionConfidence),
                   !.remarks = IF r.remarks = Undefined THEN @ ELSE r.remarks]

\* existingAttendance.status = status; ... = detectionConfidence || 0; ... =
\* remarks || ''
UpdatedAttendance(existing, r) ==
  [existing EXCEPT !.status = r.status,
                   !.detectionConfidence = ConfidenceOrDefault(r.detectionConfidence),
                   !.remarks = RemarksOrDefault(r.remarks)]

\* Attendance.findOne({student: studentId, sessionId}), then the assignments
\* to the handler's copy of the document found, if any. With none found and no faculty document,
\* faculty.username throws and the catch block answers 500.
MarkFindExisting(p) ==
  /\ req[p].op = "mark" /\ req[p].pc = "findExisting"
  /\ LET found == AttendanceOf(req[p].studentId, req[p].sessionId)
     IN IF found = {}
          THEN req' = [req EXCEPT ![p] =
                         IF req[p].faculty = {}
                           THEN Reply(@, 500, "Server error", {})
                           ELSE [@ EXCEPT !.pc = "insert"]]
          ELSE \E existing \in found :
                 req' = [req EXCEPT ![p] =
                           [@ EXCEPT !.pc = "update",
                                     !.existingAttendance = {existing},
                                     !.assigned =
                                        {UpdatedAttendance(existing, req[p])}]]
  /\ UNCHANGED <<sessions, attendance, now, started, lastMark, raced>>
  /\ UNCHANGED <<tally, camera>>

\* What the mark in r asked for: an omitted confidence is 0, an omitted remark
\* the empty string.
Asked(r) ==
  [student |-> r.studentId, sessionId |-> r.sessionId, status |-> r.status,
   detectionConfidence |-> IF r.detectionConfidence = NoNumber
                             THEN 0 ELSE r.detectionConfidence,
   remarks |-> IF r.remarks = Undefined THEN "" ELSE r.remarks]

\* The history of marks answered with success: the entry of the call's
\* (student, sessionId) is replaced by the call's values.
Marked(r) ==
  {m \in lastMark : ~(m.student = r.studentId /\ m.sessionId = r.sessionId)}
    \cup {Asked(r)}

\* Faulty variant: the save also takes the date off the record.
SavedAttendance_WithoutDate(d, loaded, assigned) ==
  IF d._id = loaded._id
    THEN [d EXCEPT !.status = assigned.status,
                   !.detectionConfidence = assigned.detectionConfidence,
                   !.remarks = assigned.remarks,
                   !.date = NoTime]
    ELSE d

\* The stored record after existingAttendance.save(): save writes, to the
\* stored document with the loaded one's _id, the paths whose assigned value
\* differs from the value loaded.
SavedAttendance(d, loaded, assigned) ==
  IF d._id = loaded._id
    THEN [d EXCEPT
            !.status =
               IF assigned.status # loaded.status THEN assigned.status ELSE @,
            !.detectionConfidence =
               IF assigned.detectionConfidence # loaded.detectionConfidence
                 THEN assigned.detectionConfidence ELSE @,
            !.remarks =
               IF assigned.remarks # loaded.remarks THEN assigned.remarks ELSE @]
    ELSE d

\* existingAttendance.save(), answered 200 with the handler's document.
MarkUpdate(p) ==
  /\ req[p].op = "mark" /\ req[p].pc = "update"
  /\ LET loaded == CHOOSE d \in req[p].existingAttendance : TRUE
         assigned == CHOOSE d \in req[p].assigned : TRUE
     IN /\ attendance' = {SavedAttendance(d, loaded, assigned) : d \in attendance}
        /\ req' = [req EXCEPT ![p] =
                     Reply(@, 200, "Attendance updated successfully", {assigned})]
        /\ lastMark' = Marked(req[p])
  /\ UNCHANGED <<sessions, now, started, raced>>
  /\ UNCHANGED <<tally, camera>>

\* new Attendance({...})
NewAttendance(r, id) ==
  LET session == CHOOSE d \in r.session : TRUE
      student == CHOOSE u \in r.student : TRUE
      faculty == CHOOSE u \in r.faculty : TRUE
  IN [_id |-> id, student |-> r.studentId, studentName |-> student.username,
      subject |-> session.subject, subjectName |-> session.subjectName,
      faculty |-> r.userId, facultyName |-> faculty.username,
      date |-> session.date, status |-> r.status, cohort |-> session.cohort,
      sessionId |-> r.sessionId,
      detectionConfidence |-> ConfidenceOrDefault(r.detectionConfidence),
      remarks |-> RemarksOrDefault(r.remarks)]

\* attendance.save(): the insert, answered 201, or rejected by the store and
\* answered 500 from the catch block.
MarkInsert(p) ==
  /\ req[p].op = "mark" /\ req[p].pc = "insert"
  /\ LET doc == NewAttendance(req[p], NextId(attendance))
     IN IF AttendanceInsertAccepted(attendance, doc)
          THEN /\ attendance' = attendance \cup {doc}
               /\ req' = [req EXCEPT ![p] =
                            Reply(@, 201, "Attendance marked successfully", {doc})]
               /\ lastMark' = Marked(req[p])
          ELSE /\ req' = [req EXCEPT ![p] = Reply(@, 500, "Server error", {})]
               /\ UNCHANGED <<attendance, lastMark>>
  /\ UNCHANGED <<sessions, now, started, raced>>
  /\ UNCHANGED <<tally, camera>>

\* ------------------------------------------- GET /student/:studentId

\* Faulty variant: the check leaves out the caller's role.
AccessDenied_AnyRole(role, userId, studentId) == userId # studentId

\* req.user.role === 'student' && req.user.userId !== studentId
AccessDenied(role, userId, studentId) ==
  role = "student" /\ userId # studentId

\* Attendance.find(filter) with filter = {student} and, when a subjectId is
\* given, subject.
StudentRecords(studentId, subjectId) ==
  {d \in attendance :
     /\ d.student = studentId
     /\ (subjectId # Undefined => d.subject = subjectId)}

\* Faulty variant: the percentage is cut off after the first decimal.
Percentage_Truncated(present, late, total) ==
  (1000 * (present + late)) \div total

\* The quotients (present + late) / total, as n / 80, whose product with 100
\* is a double just below a number that ends in 5 in the second decimal,
\* where the exact product ends in 5 (all of them for total < 400).
BelowHalf == {23, 41, 51}

\* ((present + late) / total * 100).toFixed(1), in tenths of a percent:
\* toFixed rounds the double to the nearest tenth, and upwards from the
\* middle between two tenths.
Percentage(present, late, total) ==
  IF \E n \in BelowHalf : 80 * (present + late) = n * total
    THEN (1000 * (present + late)) \div total
    ELSE (2000 * (present + late) + total) \div (2 * total)

\* percentage >= 90 ? 'excellent' : percentage >= 75 ? 'good' : 'bad'
StatusOf(percentage) ==
  IF percentage >= 900 THEN "excellent"
  ELSE IF percentage >= 750 THEN "good" ELSE "bad"

\* The statistics of one subject after the loop over its records has counted
\* them (total++ and stats[status]++ per record), without the subject's name.
Stat(present, absent, late) ==
  LET total == present + absent + late
      percentage == IF total > 0 THEN Percentage(present, late, total) ELSE 0
  IN [total |-> total, present |-> present, absent |-> absent, late |-> late,
      percentage |-> percentage, status |-> StatusOf(percentage)]

\* The statistics object of one subject's records.
SubjectStats(records, subject) ==
  LET group == {d \in records : d.subject = subject}
      count(st) == Cardinality({d \in group : d.status = st})
      stat == Stat(count("present"), count("absent"), count("late"))
  IN [subject |-> subject,
      subjectName |-> (CHOOSE d \in group : TRUE).subjectName,
      total |-> stat.total, present |-> stat.present,
      absent |-> stat.absent, late |-> stat.late,
      percentage |-> stat.percentage, status |-> stat.status]

\* Object.values(stats): one object per subject among the records.
Statistics(records) ==
  {SubjectStats(records, subject) : subject \in {d.subject : d \in records}}

\* The whole handler: the access check, Attendance.find(filter).populate(...)
\* and the statistics. A record whose subject document is missing populates
\* to null, record.subject._id throws and the catch block answers 500.
StudentAttendance(p, role, userId, studentId, subjectId) ==
  /\ Accept(p)
  /\ LET r == [Idle EXCEPT !.op = "student", !.role = role]
         records == StudentRecords(studentId, subjectId)
         answer ==
           IF AccessDenied(role, userId, studentId)
             THEN Reply(r, 403, "Access denied", {})
           ELSE IF \E d \in records : Subject(d.subject) = {}
             THEN Reply(r, 500, "Server error", {})
           ELSE [Reply(r, 200, "", records)
                   EXCEPT !.statistics = Statistics(records)]
     IN req' = [req EXCEPT ![p] =
                  [answer EXCEPT !.userId = userId, !.studentId = studentId]]
  /\ UNCHANGED <<sessions, attendance, now, lastMark, raced>>
  /\ UNCHANGED <<tally, camera>>

\* ------------------------------------ the statistics of one subject

\* attendance.forEach: the loop takes the next record of the subject, of the
\* given status.
CountRecord(status) ==
  /\ tally.pc = "count"
  /\ \/ /\ status = "present" /\ tally.present < MaxPresent
        /\ tally' = [tally EXCEPT !.present = @ + 1]
     \/ /\ status = "absent" /\ tally.absent < MaxAbsent
        /\ tally' = [tally EXCEPT !.absent = @ + 1]
     \/ /\ status = "late" /\ tally.late < MaxLate
        /\ tally' = [tally EXCEPT !.late = @ + 1]
  /\ UNCHANGED <<sessions, attendance, now, started, req, lastMark, raced, camera>>

\* Object.keys(stats).forEach: the percentage and the status of the subject,
\* which has an entry because the loop met a record of it.
ComputeStatistics ==
  /\ tally.pc = "count"
  /\ tally.present + tally.absent + tally.late > 0
  /\ tally' = [tally EXCEPT
                 !.pc = "computed",
                 !.statistics = {Stat(tally.present, tally.absent, tally.late)}]
  /\ UNCHANGED <<sessions, attendance, now, started, req, lastMark, raced, camera>>

StatsNext ==
  \/ \E status \in Statuses : CountRecord(status)
  \/ ComputeStatistics

StatsSpec == Init /\ [][StatsNext]_vars

\* ------------------------------------------------------- GET /report

\* Faulty variant: the facultyId of the query is taken for every caller.
ReportFaculty_AsSupplied(role, userId, facultyId) == facultyId

\* filter.faculty: if (facultyId) filter.faculty = facultyId; then, for a
\* caller with role faculty, filter.faculty = req.user.userId. Undefined
\* stands for a filter without faculty.
ReportFaculty(role, userId, facultyId) ==
  IF role = "faculty" THEN userId ELSE facultyId

\* Attendance.find(filter) with filter = {subject, faculty}, each left out
\* when Undefined (the query gives no division, department, semester or dates).
ReportRecords(subjectId, faculty) ==
  {d \in attendance :
     /\ (subjectId # Undefined => d.subject = subjectId)
     /\ (faculty # Undefined => d.faculty = faculty)}

\* The whole handler, for a caller requireRole(['faculty', 'admin']) lets
\* through: the filter, Attendance.find(filter).populate(...) and the answer.
Report(p, role, userId, subjectId, facultyId) ==
  /\ Accept(p)
  /\ LET r == [Idle EXCEPT !.op = "report", !.role = role]
         records == ReportRecords(subjectId, ReportFaculty(role, userId, facultyId))
     IN req' = [req EXCEPT ![p] =
                  [Reply(r, 200, "", records)
                     EXCEPT !.userId = userId, !.subjectId = subjectId,
                            !.facultyId = facultyId]]
  /\ UNCHANGED <<sessions, attendance, now, lastMark, raced>>
  /\ UNCHANGED <<tally, camera>>

\* ------------------------------------------------------ the requests

\* The user ids a faculty token can carry: faculty members, and an id with no
\* User document.
FacultyCallers == FacultyIds \cup {NoUser}
\* The session ids a request can name: those of stored sessions, and one of
\* no session.
SessionIdInputs == {d.sessionId : d \in sessions} \cup {NoSessionId}
\* The students a mark can name: students, a faculty member, nobody.
StudentIdInputs == StudentIds \cup {"f2", NoUser}
\* The (detectionConfidence, remarks) a mark can carry: both left out, or
\* both given.
DetectionInputs == {<<NoNumber, Undefined>>, <<50, "seen">>}
\* The (role, userId) pairs of the tokens that query a student's history.
HistoryCallers ==
  {<<"student", "s1">>, <<"student", "s2">>, <<"faculty", "f1">>, <<"admin", "a1">>}

\* The (role, userId) pairs of the tokens that ask for a report.
ReportCallers == {<<"faculty", "f1">>, <<"faculty", "f2">>, <<"admin", "a1">>}
\* The facultyId a report query can carry: none, or a faculty member's id.
FacultyIdInputs == FacultyIds \cup {Undefined}

Next ==
  \/ \E p \in Procs, userId \in FacultyCallers,
        subjectId \in SubjectIds \cup {NoSubject}, cohort \in Cohorts :
        SessionStartBegin(p, userId, subjectId, cohort)
  \/ \E p \in Procs : SessionStartCount(p)
  \/ \E p \in Procs : SessionStartSave(p)
  \/ \E p \in Procs, userId \in FacultyIds, sessionId \in SessionIdInputs :
        SessionEndBegin(p, userId, sessionId)
  \/ \E p \in Procs : SessionEndCount(p)
  \/ \E p \in Procs : SessionEndSave(p)
  \/ \E p \in Procs, userId \in FacultyIds, sessionId \in SessionIdInputs,
        studentId \in StudentIdInputs, status \in Statuses,
        detection \in DetectionInputs :
        MarkBegin(p, userId, sessionId, studentId, status, detection[1],
                  detection[2])
  \/ \E p \in Procs : MarkFindStudent(p)
  \/ \E p \in Procs : MarkFindExisting(p)
  \/ \E p \in Procs : MarkUpdate(p)
  \/ \E p \in Procs : MarkInsert(p)
  \/ \E p \in Procs, caller \in HistoryCallers, studentId \in StudentIds,
        subjectId \in SubjectIds \cup {Undefined} :
        StudentAttendance(p, caller[1], caller[2], studentId, subjectId)
  \/ \E p \in Procs, caller \in ReportCallers,
        subjectId \in SubjectIds \cup {Undefined}, facultyId \in FacultyIdInputs :
        Report(p, caller[1], caller[2], subjectId, facultyId)

Spec == Init /\ [][Next]_vars

\* No two requests are handled at the same time.
NonOverlapping == Cardinality({p \in Procs : ~Free(p)}) <= 1

SerialNext == Next /\ NonOverlapping'

SerialSpec == Init /\ [][SerialNext]_vars

\* ------------------------------------------------------- WebcamFeed

\* Every render of the component defines startCamera and stopCamera anew, over
\* the value stream has in that render; the effect depends on isRecording
\* only, so the effect and the cleanup in force are those of the render in
\* which isRecording last changed (or of the first render), and the stream
\* they see is camera.seen.

\* stopCamera() of a render in which stream is s: if (stream) { the tracks
\* are stopped; setStream(null) }.
StopCamera(c, s) ==
  IF s # 0 THEN [c EXCEPT !.live = @ \ {s}, !.stream = 0] ELSE c

\* startCamera() of a render in which stream is s, up to its await:
\* if (stream) return; setIsLoading(true); setError(null); getUserMedia(...).
StartCamera(c, s) ==
  IF s # 0 THEN c
  ELSE [c EXCEPT !.isLoading = TRUE, !.error = FALSE, !.pending = @ + 1]

\* The effect of a render in which stream is s.
Effect(c, s) ==
  IF c.isRecording THEN StartCamera(c, s) ELSE StopCamera(c, s)

\* The component is mounted: the first render, with stream null, and its
\* effect.
Mount(isRecording) ==
  /\ camera.phase = "new"
  /\ camera' = Effect([camera EXCEPT !.phase = "mounted",
                                     !.isRecording = isRecording, !.seen = 0],
                      0)
  /\ UNCHANGED <<sessions, attendance, now, started, req, lastMark, raced, tally>>

\* The parent changes isRecording: a render with the present value of stream,
\* then the cleanup of the effect in force, then the effect of this render.
SetRecording ==
  /\ camera.phase = "mounted"
  /\ camera.changes < MaxChanges
  /\ LET s == camera.stream
         cleaned == StopCamera([camera EXCEPT !.changes = @ + 1,
                                              !.isRecording = ~@],
                               camera.seen)
     IN camera' = [Effect(cleaned, s) EXCEPT !.seen = s]
  /\ UNCHANGED <<sessions, attendance, now, started, req, lastMark, raced, tally>>

\* A getUserMedia call resolves with a new MediaStream: setStream(mediaStream),
\* setIsLoading(false). The new render runs no effect. After unmounting the
\* state updates do nothing; the stream is live all the same.
Resolve ==
  /\ camera.pending > 0
  /\ LET mediaStream == camera.acquired + 1
         c == [camera EXCEPT !.pending = @ - 1, !.acquired = mediaStream,
                             !.live = @ \cup {mediaStream}]
     IN camera' = IF camera.phase = "mounted"
                    THEN [c EXCEPT !.stream = mediaStream, !.isLoading = FALSE]
                    ELSE c
  /\ UNCHANGED <<sessions, attendance, now, started, req, lastMark, raced, tally>>

\* A getUserMedia call rejects: setError(...), setIsLoading(false).
Reject ==
  /\ camera.pending > 0
  /\ LET c == [camera EXCEPT !.pending = @ - 1]
     IN camera' = IF camera.phase = "mounted"
                    THEN [c EXCEPT !.error = TRUE, !.isLoading = FALSE]
                    ELSE c
  /\ UNCHANGED <<sessions, attendance, now, started, req, lastMark, raced, tally>>

\* The component is unmounted: the cleanup of the effect in force.
Unmount ==
  /\ camera.phase = "mounted"
  /\ camera' = [StopCamera(camera, camera.seen) EXCEPT !.phase = "unmounted"]
  /\ UNCHANGED <<sessions, attendance, now, started, req, lastMark, raced, tally>>

CameraNext ==
  \/ \E isRecording \in BOOLEAN : Mount(isRecording)
  \/ SetRecording
  \/ Resolve
  \/ Reject
  \/ Unmount

CameraSpec == Init /\ [][CameraNext]_vars

\* ------------------------------------------------------- properties

\* Handler slot p takes this step.
Steps(p) == req'[p] # req[p]

\* The request in r is over.
Done(r, op) == r.op = op /\ r.pc = "done"

\* The stored record of m's (student, sessionId) carries m's values.
StoredAs(m) ==
  LET records == AttendanceOf(m.student, m.sessionId)
  IN /\ Cardinality(records) = 1
     /\ \A d \in records :
          /\ d.status = m.status
          /\ d.detectionConfidence = m.detectionConfidence
          /\ d.remarks = m.remarks

\* C1: every (student, session) pair that has been marked with success, and
\* on which no two marks were handled at once, has exactly one record, and the record's status,
\* confidence and remark are those of the last successful mark for the pair
\* (an omitted confidence stored as 0, an omitted remark as ''); there is no
\* record of a pair that was never marked.
C1_LastMarkStored ==
  /\ \A m \in lastMark : <<m.student, m.sessionId>> \notin raced => StoredAs(m)
  /\ \A d \in attendance :
       \E m \in lastMark : m.student = d.student /\ m.sessionId = d.sessionId

\* A second mark for a pair, without confidence and remark, has updated the
\* record of the first.
C1_Witness ==
  \E p \in Procs :
    /\ Done(req[p], "mark") /\ req[p].code = 200
    /\ \E d \in req[p].body :
         /\ d.status = "late" /\ d.detectionConfidence = 0 /\ d.remarks = ""
         /\ <<d.student, d.sessionId>> \notin raced
         /\ \E m \in lastMark :
              m.student = d.student /\ m.sessionId = d.sessionId /\ StoredAs(m)

\* C2: under every interleaving of the mark handlers' steps there is at most
\* one attendance record per (student, sessionId).
C2_OneRecordPerPair ==
  \A d1, d2 \in attendance :
    (d1.student = d2.student /\ d1.sessionId = d2.sessionId) => d1 = d2

\* Two marks of one pair raced: both found no record, and the second insert
\* was rejected.
C2_Witness ==
  \E p \in Procs : Done(req[p], "mark") /\ req[p].code = 500

\* C3: a session end that arrives after the session has been ended is
\* answered 404 and changes no session.
C3_EndOnlyOnce ==
  [][\A p \in Procs :
       (Steps(p) /\ req'[p].op = "end" /\ req'[p].ended)
         => /\ req'[p].pc = "done" /\ req'[p].code = 404
            /\ sessions' = sessions]_vars

\* A second end of a session by its own faculty member was answered 404.
C3_Witness ==
  \E p \in Procs :
    /\ Done(req[p], "end") /\ req[p].code = 404
    /\ req[p].ended /\ ~req[p].foreign

\* C4: a mark that names no session, another faculty member's session or a
\* session ended before the mark arrived is answered 400 'Invalid or inactive
\* session' and changes no attendance record.
C4_MarkNeedsOwnActiveSession ==
  [][\A p \in Procs :
       (/\ Steps(p) /\ req'[p].op = "mark"
        /\ (~req'[p].named \/ req'[p].foreign \/ req'[p].ended))
         => /\ req'[p].pc = "done" /\ req'[p].code = 400
            /\ req'[p].message = "Invalid or inactive session"
            /\ attendance' = attendance]_vars

\* A mark of the faculty member's own, ended session was turned down.
C4_Witness ==
  \E p \in Procs :
    /\ Done(req[p], "mark") /\ req[p].code = 400
    /\ req[p].message = "Invalid or inactive session"
    /\ req[p].named /\ req[p].ended /\ ~req[p].foreign

\* C5: a session end by a faculty member other than the one who started the
\* session is answered 404 and changes no session.
C5_OnlyOwnerEnds ==
  [][\A p \in Procs :
       (Steps(p) /\ req'[p].op = "end" /\ req'[p].foreign)
         => /\ req'[p].pc = "done" /\ req'[p].code = 404
            /\ sessions' = sessions]_vars

\* Another faculty member's end of an active session was answered 404 and
\* the session is still active.
C5_Witness ==
  \E p \in Procs :
    /\ Done(req[p], "end") /\ req[p].code = 404
    /\ req[p].foreign /\ ~req[p].ended
    /\ \E d \in sessions : d.status = "active"

\* The records of a session with a status.
RecordsOf(sessionId, status) ==
  {d \in attendance : d.sessionId = sessionId /\ d.status = status}

\* C6: when requests do not overlap, a completed session has its endTime
\* set, presentStudents equal to the number of its records with status
\* present (late and absent ones not counted), absentStudents equal to
\* totalStudents minus that number, and totalStudents as counted at the start.
C6_EndCounts ==
  \A d \in sessions :
    d.status = "completed" =>
      /\ d.endTime # NoTime /\ d.endTime >= d.startTime
      /\ d.presentStudents = Cardinality(RecordsOf(d.sessionId, "present"))
      /\ d.absentStudents = d.totalStudents - d.presentStudents
      /\ d.totalStudents = CountStudents(d.cohort)

\* A session was ended with one student marked present.
C6_Witness ==
  \E d \in sessions :
    /\ d.status = "completed" /\ d.presentStudents = 1
    /\ RecordsOf(d.sessionId, "present") # {}

C8_UniqueSessionIds ==
  \A d1, d2 \in sessions : d1.sessionId = d2.sessionId => d1 = d2

\* Two starts by one faculty member for one subject read the same clock
\* value, and the second insert was rejected.
C8_Witness ==
  \E p \in Procs :
    /\ Done(req[p], "start") /\ req[p].code = 500
    /\ sessions # {}

\* C9: a session start whose subject and faculty exist stores exactly one new
\* session, active, without endTime and with totalStudents the number of
\* active students of the cohort, and is answered 201; a start whose subject
\* or faculty is missing stores nothing.
C9_StartStoresOneSession ==
  [][\A p \in Procs :
       (Steps(p) /\ req'[p].op = "start" /\ req'[p].pc = "done")
         => IF req[p].pc = "save"
              THEN /\ req[p].subject # {} /\ req[p].faculty # {}
                   /\ req'[p].code = 201
                   /\ \E d \in sessions' \ sessions :
                        /\ sessions' = sessions \cup {d}
                        /\ d.status = "active" /\ d.endTime = NoTime
                        /\ d.totalStudents = CountStudents(req[p].cohort)
              ELSE /\ req'[p].code = 400
                   /\ sessions' = sessions]_vars

\* C10: a history query by a student for another student's id is answered
\* 403 without records; a student's query for the own id, and a faculty
\* member's or admin's query, is not answered 403.
C10_StudentsSeeOnlyOwn ==
  \A p \in Procs :
    Done(req[p], "student") =>
      IF req[p].role = "student" /\ req[p].userId # req[p].studentId
        THEN req[p].code = 403 /\ req[p].body = {} /\ req[p].statistics = {}
        ELSE req[p].code # 403

\* A student asked for the history of another student who has a record, and
\* was turned down.
C10_Witness ==
  \E p \in Procs :
    /\ Done(req[p], "student") /\ req[p].role = "student"
    /\ req[p].userId # req[p].studentId /\ req[p].code = 403
    /\ \E d \in attendance : d.student = req[p].studentId

\* C11: a report answers with the stored records that pass the query's
\* subject filter and whose faculty is the caller, when the caller's role is
\* faculty, whatever facultyId the query carries; for an admin the records
\* are those of the query's facultyId, or of every faculty member when the
\* query carries none.
C11_FacultySeeOnlyOwn ==
  [][\A p \in Procs :
       (Steps(p) /\ req'[p].op = "report")
         => LET r == req'[p]
                seen == {d \in attendance :
                           r.subjectId # Undefined => d.subject = r.subjectId}
            IN /\ r.pc = "done" /\ r.code = 200
               /\ r.role = "faculty"
                    => r.body = {d \in seen : d.faculty = r.userId}
               /\ (r.role = "admin" /\ r.facultyId # Undefined)
                    => r.body = {d \in seen : d.faculty = r.facultyId}
               /\ (r.role = "admin" /\ r.facultyId = Undefined)
                    => r.body = seen]_vars

\* A faculty member asked for another faculty member's records and got the
\* own ones.
C11_Witness ==
  \E p \in Procs :
    /\ Done(req[p], "report") /\ req[p].role = "faculty"
    /\ req[p].facultyId \in FacultyIds \ {req[p].userId}
    /\ req[p].body # {}
    /\ \A d \in req[p].body : d.faculty = req[p].userId

\* C12: the statistics of a subject have total = present + absent + late, a
\* percentage that is (present + late) / total * 100 rounded to one decimal
\* (no other tenth is nearer), and a status read off the rounded percentage:
\* excellent from 90.0, good from 75.0 to below 90.0, bad below 75.0; so 7
\* present, 2 late and 1 absent give 90.0 and excellent.
C12_PercentageAndStatus ==
  \A st \in tally.statistics :
    LET attended == tally.present + tally.late
    IN /\ st.present = tally.present /\ st.absent = tally.absent
       /\ st.late = tally.late
       /\ st.total = tally.present + tally.absent + tally.late
       /\ 2 * (st.percentage * st.total - 1000 * attended) <= st.total
       /\ 2 * (1000 * attended - st.percentage * st.total) <= st.total
       /\ st.status = (IF st.percentage >= 900 THEN "excellent"
                       ELSE IF st.percentage >= 750 THEN "good" ELSE "bad")
       /\ (tally.present = 7 /\ tally.late = 2 /\ tally.absent = 1)
            => (st.percentage = 900 /\ st.status = "excellent")
       /\ 4 * attended = 3 * st.total
            => (st.percentage = 750 /\ st.status = "good")

\* A subject whose exact percentage is below 90 and rounds to 90.0 is
\* excellent.
C12_Witness ==
  \E st \in tally.statistics :
    /\ 100 * (tally.present + tally.late) < 90 * st.total
    /\ st.percentage = 900 /\ st.status = "excellent"

\* A subject whose percentage rounds to 74.9 is bad.
C12_Witness749 ==
  \E st \in tally.statistics : st.percentage = 749 /\ st.status = "bad"

\* C13: a mark that has found its session active and names as student no
\* user, or a user whose role is not student, is answered 400 'Student not
\* found' and changes no attendance record.
C13_MarkNeedsStudent ==
  [][\A p \in Procs :
       (/\ Steps(p) /\ req[p].op = "mark" /\ req[p].pc = "findStudent"
        /\ \A u \in User(req[p].studentId) : u.role # "student")
         => /\ req'[p].pc = "done" /\ req'[p].code = 400
            /\ req'[p].message = "Student not found"
            /\ attendance' = attendance]_vars

\* A mark in an active session of the caller was turned down for its student.
C13_Witness ==
  \E p \in Procs :
    /\ Done(req[p], "mark") /\ req[p].code = 400
    /\ req[p].message = "Student not found"
    /\ req[p].named /\ ~req[p].foreign /\ ~req[p].ended

\* C14: when no request is in flight, presentStudents of every completed
\* session is the number of the session's records with status present.
C14_CountsValidOnceCompleted ==
  (\A p \in Procs : Free(p))
    => \A d \in sessions :
         d.status = "completed"
           => d.presentStudents = Cardinality(RecordsOf(d.sessionId, "present"))

\* C15: a session end that is answered 200 and writes the session is the
\* only one for its session: the stored session is still active when the
\* end saves it.
C15_OneCloseWins ==
  [][\A p \in Procs :
       (Steps(p) /\ req[p].op = "end" /\ req[p].pc = "save")
         => \A loaded \in req[p].session :
              \E d \in sessions : d._id = loaded._id /\ d.status = "active"]_vars

\* C16: every step keeps every stored session and attendance record; a
\* session's status changes only from active to completed, and a completed
\* session is left as it is.
C16_CompletedIsTerminal ==
  [][/\ \A d \in sessions :
          \E e \in sessions' :
            /\ e._id = d._id
            /\ e.status # d.status
                 => (d.status = "active" /\ e.status = "completed")
            /\ d.status = "completed" => e = d
     /\ \A a \in attendance : \E b \in attendance' : b._id = a._id]_vars

\* C17: the stored counts of every completed session are within range:
\* 0 <= presentStudents <= totalStudents and absentStudents >= 0.
C17_CountsInRange ==
  \A d \in sessions :
    d.status = "completed"
      => /\ 0 <= d.presentStudents /\ d.presentStudents <= d.totalStudents
         /\ d.absentStudents >= 0

\* C18: the save of a mark that found a record of its (student, session)
\* changes, of that record, nothing but status, detectionConfidence and
\* remarks, and changes no other attendance record and no session.
C18_UpdateTouchesThreeFields ==
  [][\A p \in Procs :
       (Steps(p) /\ req[p].op = "mark" /\ req[p].pc = "update")
         => /\ sessions' = sessions
            /\ \A e \in attendance' : \E d \in attendance : d._id = e._id
            /\ \A d \in attendance :
                 \E e \in attendance' :
                   /\ e._id = d._id
                   /\ IF d \in req[p].existingAttendance
                             \/ (/\ d.student = req[p].studentId
                                 /\ d.sessionId = req[p].sessionId)
                        THEN d = [e EXCEPT
                                    !.status = d.status,
                                    !.detectionConfidence = d.detectionConfidence,
                                    !.remarks = d.remarks]
                        ELSE e = d]_vars

\* A mark changed the status and the confidence of the record of an earlier
\* mark, which keeps its date and names.
C18_Witness ==
  \E p \in Procs :
    /\ Done(req[p], "mark") /\ req[p].code = 200
    /\ \E b \in req[p].body :
         \E d \in attendance :
           /\ d._id = b._id /\ d.status = "absent" /\ d.detectionConfidence = 50
           /\ d.date # NoTime /\ d.studentName = d.student

\* C19: at no time do two MediaStreams of the component have a track that
\* has not been stopped.
C19_OneLiveStream == Cardinality(camera.live) <= 1

\* C20: when isRecording is false or the component is unmounted, and no
\* getUserMedia call is pending, every MediaStream the component acquired
\* has its tracks stopped.
C20_CameraReleased ==
  (/\ camera.phase # "new"
   /\ ~camera.isRecording \/ camera.phase = "unmounted"
   /\ camera.pending = 0)
    => camera.live = {}

====
